---- MODULE Spec2Model ----
(***************************************************************************)
(* A model of the risk library of VaR_exploration: breach detection and    *)
(* its summary (src/risk/utils.py), the three VaR estimators               *)
(* (src/risk/var.py) and the backtests (src/risk/backtests.py).            *)
(*                                                                         *)
(* The library is a set of functions over pandas tables and series.  The   *)
(* state is what a caller holds: a table df (a DataFrame: column name ->   *)
(* column), a return series, a breach flag series, a price series, the     *)
(* listing of the data directory (files) with the files read so far        *)
(* (reads), and the outcome `out` of the last call (the value returned or  *)
(* the exception raised).  Each action is one call of one function on the  *)
(* caller's data.                                                          *)
(*                                                                         *)
(* Numbers.  Returns and thresholds are integers in units of 1/100 (so     *)
(* -10 is a return of -0.10).  Quotients are exact fractions [n, d] in     *)
(* lowest terms; a float NaN is the value NaN below.  Natural logarithms   *)
(* and the chi-square distribution function are kept symbolic: a          *)
(* likelihood-ratio statistic records the quantities it is computed from.  *)
(* The sample mean and standard deviation of the parametric and Monte      *)
(* Carlo estimators are taken in fixed point (1/100 of a return unit,      *)
(* rounded down); float rounding error is not modelled.                    *)
(***************************************************************************)
EXTENDS Integers, Sequences, FiniteSets, TLC

VARIABLES df, df0, returns, breaches, prices, files, reads, out

vars == <<df, df0, returns, breaches, prices, files, reads, out>>

(***************************************************************************)
(* Bounds of the model.                                                    *)
(***************************************************************************)
\* rows of a table, elements of a return series
MaxLen == 3
\* elements of a breach flag series handed to a backtest
MaxFlags == 6
\* simulation count of monte_carlo_var
MaxSims == 2
\* forward horizon of calculate_forward_log_returns, in days
MaxHorizon == 3
\* number of files in the data directory
MaxFiles == 3

\* realized returns and VaR thresholds of a row, in 1/100
RetValues == {-10, -2, 5}
VarValues == {-5, -1, 8}

\* closing prices
PriceValues == {100, 110, 121}

\* confidence levels, as <<numerator, denominator>>
Confidences == {<<4, 5>>, <<19, 20>>}

(***************************************************************************)
(* Arithmetic helpers.                                                     *)
(***************************************************************************)
Abs(x) == IF x < 0 THEN -x ELSE x

RECURSIVE GCD(_, _)
GCD(a, b) == IF b = 0 THEN Abs(a) ELSE GCD(b, a % b)

\* the fraction n/d (d # 0) in lowest terms with a positive denominator
Frac(n, d) ==
    LET g == GCD(Abs(n), Abs(d))
        s == IF d < 0 THEN -1 ELSE 1
    IN  [n |-> (s * n) \div g, d |-> (s * d) \div g]

NaN == [nan |-> TRUE]

RECURSIVE SumSeq(_)
SumSeq(s) == IF Len(s) = 0 THEN 0 ELSE Head(s) + SumSeq(Tail(s))

\* pandas Series.sum() of a boolean column: the number of True flags
RECURSIVE CountTrue(_)
CountTrue(s) ==
    IF Len(s) = 0 THEN 0
    ELSE (IF Head(s) THEN 1 ELSE 0) + CountTrue(Tail(s))

SeqsUpTo(S, n) == UNION {[1..k -> S] : k \in 0..n}

(***************************************************************************)
(* Breach detection: src/risk/utils.py                                     *)
(***************************************************************************)

\* a variant that leaves out the sign guard (df[return_col] < 0)
BreachFlagsNoSignGuard(d, return_col, var_col) ==
    [i \in 1..Len(d[return_col]) |-> d[return_col][i] < d[var_col][i]]

\* a variant that joins the two comparisons with | instead of &
BreachFlagsOr(d, return_col, var_col) ==
    [i \in 1..Len(d[return_col]) |->
        (d[return_col][i] < d[var_col][i]) \/ (d[return_col][i] < 0)]

\* (df[return_col] < df[var_col]) & (df[return_col] < 0), row by row
BreachFlags(d, return_col, var_col) ==
    [i \in 1..Len(d[return_col]) |->
        (d[return_col][i] < d[var_col][i]) /\ (d[return_col][i] < 0)]

\* a variant that builds a table holding the new column alone
SetColumnAlone(d, col, values) == [c \in {col} |-> values]

\* df[breach_col] = ...: the table with column breach_col set
SetColumn(d, col, values) ==
    [c \in (DOMAIN d) \cup {col} |-> IF c = col THEN values ELSE d[c]]

\* detect_var_breaches(df, 'ret', 'var', 'breach'): assigns the column in the
\* caller's table and returns that table (the same object)
DetectVarBreaches ==
    /\ "ret" \in DOMAIN df /\ "var" \in DOMAIN df
    /\ df' = SetColumn(df, "breach", BreachFlags(df, "ret", "var"))
    /\ out' = [op |-> "detect_var_breaches", status |-> "ok", returned |-> "df"]
    /\ UNCHANGED <<df0, returns, breaches, prices, files, reads>>

\* a variant that cuts the float to three decimals instead of rounding it
Round3Truncating(x) ==
    IF x = NaN THEN NaN ELSE Frac((1000 * x.n) \div x.d, 1000)

\* round(x, 3): the nearest thousandth, ties to even; NaN stays NaN
Round3(x) ==
    IF x = NaN THEN NaN
    ELSE LET q == (1000 * x.n) \div x.d
             r == (1000 * x.n) % x.d
             k == IF 2 * r > x.d \/ (2 * r = x.d /\ q % 2 = 1) THEN q + 1 ELSE q
         IN  Frac(k, 1000)

\* Series.mean() of a boolean column: NaN for an empty column
MeanFlags(col) == IF Len(col) = 0 THEN NaN ELSE Frac(CountTrue(col), Len(col))

\* the dict summarize_var_breaches returns for a flag column
SummaryOf(col) ==
    [count |-> CountTrue(col), percentage |-> Round3(MeanFlags(col))]

\* summarize_var_breaches(df, 'breach'); df['breach'] raises KeyError when the
\* table has no such column
SummarizeVarBreaches ==
    /\ out' = IF "breach" \in DOMAIN df
              THEN [op |-> "summarize_var_breaches", status |-> "ok",
                    value |-> SummaryOf(df["breach"])]
              ELSE [op |-> "summarize_var_breaches", status |-> "KeyError"]
    /\ UNCHANGED <<df, df0, returns, breaches, prices, files, reads>>

NoCall == [op |-> "none", status |-> "none"]

\* DataFrame({'ret': r, 'var': v})
Table(r, v) == [c \in {"ret", "var"} |-> IF c = "ret" THEN r ELSE v]

\* the caller holds a table with a return and a VaR column of equal length
InitBreach ==
    /\ df \in {Table(rv[1], rv[2]) :
                 rv \in UNION {[1..k -> RetValues] \X [1..k -> VarValues] :
                                 k \in 0..MaxLen}}
    /\ df0 = df
    /\ returns = <<>>
    /\ breaches = <<>>
    /\ prices = <<>>
    /\ files = {}
    /\ reads = <<>>
    /\ out = NoCall

NextBreach == DetectVarBreaches \/ SummarizeVarBreaches

SpecBreach == InitBreach /\ [][NextBreach]_vars

(***************************************************************************)
(* Claims about breach detection, checked under SpecBreach.                *)
(***************************************************************************)

\* the flag of row i as the contract states it, from the table as the caller
\* built it
ExpectedFlag(i) == (df0["ret"][i] < df0["var"][i]) /\ (df0["ret"][i] < 0)

\* C1: after detect_var_breaches the breach column has one flag per input
\* row, on the index of the return column, and the flag of row i is
\* (return[i] < var[i]) AND (return[i] < 0).
C1_BreachIsTwoPartGuard ==
    out.op = "detect_var_breaches" =>
        /\ "breach" \in DOMAIN df
        /\ Len(df["breach"]) = Len(df0["ret"])
        /\ DOMAIN df["breach"] = DOMAIN df0["ret"]
        /\ \A i \in DOMAIN df0["ret"] : df["breach"][i] = ExpectedFlag(i)

\* the example of tests/test_utils.py: returns [0.05,-0.10,-0.02] against
\* thresholds [-0.01,-0.05,-0.05] give [false,true,false]
C1_Witness ==
    /\ out.op = "detect_var_breaches"
    /\ df0 = Table(<<5, -10, -2>>, <<-1, -5, -5>>)
    /\ df["breach"] = <<FALSE, TRUE, FALSE>>

\* C2 as stated: a row whose threshold is positive is never flagged.
C2_PositiveThresholdNeverBreaches ==
    out.op = "detect_var_breaches" =>
        \A i \in DOMAIN df["var"] : df["var"][i] > 0 => ~df["breach"][i]

\* C2 amended: a row whose threshold is positive is flagged exactly when its
\* realized return is negative.
C2_PositiveThresholdBreachesIffLoss ==
    out.op = "detect_var_breaches" =>
        \A i \in DOMAIN df["var"] :
            df["var"][i] > 0 => (df["breach"][i] <=> df["ret"][i] < 0)

\* a positive threshold with a loss (flagged) and with a gain below the
\* threshold (not flagged)
C2_Witness ==
    /\ out.op = "detect_var_breaches"
    /\ \E i, j \in DOMAIN df["var"] :
          /\ df["var"][i] > 0 /\ df["ret"][i] < 0 /\ df["breach"][i]
          /\ df["var"][j] > 0 /\ df["ret"][j] >= 0 /\ df["ret"][j] < df["var"][j]
          /\ ~df["breach"][j]

RECURSIVE Insert(_, _)
Insert(x, s) ==
    IF Len(s) = 0 THEN <<x>>
    ELSE IF x <= Head(s) THEN <<x>> \o s
    ELSE <<Head(s)>> \o Insert(x, Tail(s))

\* the elements of s in ascending order
RECURSIVE Sort(_)
Sort(s) == IF Len(s) = 0 THEN <<>> ELSE Insert(Head(s), Sort(Tail(s)))

\* np.percentile(a, (1 - confidence) * 100) of a non-empty array, numpy's
\* default linear interpolation between order statistics: the virtual index
\* is (1 - confidence) * (n - 1), counted from 0
Percentile(a, confidence) ==
    LET s == Sort(a)
        cd == confidence[2]
        k == (cd - confidence[1]) * (Len(s) - 1)
        i == k \div cd
        g == k % cd
    IN  IF g = 0 THEN Frac(s[i + 1], 1)
        ELSE Frac(s[i + 1] * cd + g * (s[i + 2] - s[i + 1]), cd)

\* abs(x) of a float
FAbs(x) == IF x = NaN THEN NaN ELSE Frac(Abs(x.n), x.d)

\* a variant of the emptiness test that never reports an empty series
EmptyNever(s) == FALSE

\* Series.empty
Empty(s) == Len(s) = 0

\* Series.dropna(): the series modelled hold no NaN (the loader's contract),
\* so every element is kept
DropNa(s) == SelectSeq(s, LAMBDA x : x \in Int)

\* historical_var(returns, confidence_level); np.percentile raises
\* IndexError on an array left empty
HistoricalVarResult(r, confidence) ==
    IF Empty(r)
    THEN [op |-> "historical_var", status |-> "ValueError", confidence |-> confidence]
    ELSE IF Len(DropNa(r)) = 0
    THEN [op |-> "historical_var", status |-> "IndexError", confidence |-> confidence]
    ELSE [op |-> "historical_var", status |-> "ok", confidence |-> confidence,
          value |-> FAbs(Percentile(DropNa(r), confidence))]

HistoricalVar ==
    /\ \E c \in Confidences : out' = HistoricalVarResult(returns, c)
    /\ UNCHANGED <<df, df0, returns, breaches, prices, files, reads>>

\* the integer square root (rounded down), by Newton's iteration
RECURSIVE Newton(_, _)
Newton(x, r) ==
    LET r2 == (r + x \div r) \div 2
    IN  IF r2 >= r THEN r ELSE Newton(x, r2)

ISqrt(x) == IF x = 0 THEN 0 ELSE Newton(x, x)

RECURSIVE SumSquares(_)
SumSquares(s) ==
    IF Len(s) = 0 THEN 0 ELSE Head(s) * Head(s) + SumSquares(Tail(s))

\* the fixed-point float t/100
Fix(t) == [n |-> t, d |-> 100]

\* Series.mean() in 1/100 of a return unit; NaN for an empty series
Mean(s) == IF Len(s) = 0 THEN NaN ELSE Fix((100 * SumSeq(s)) \div Len(s))

\* Series.std(), the sample standard deviation (ddof = 1), in 1/100 of a
\* return unit; NaN for fewer than two elements
Std(s) ==
    IF Len(s) < 2 THEN NaN
    ELSE Fix(ISqrt((10000 * (Len(s) * SumSquares(s) - SumSeq(s) * SumSeq(s)))
                     \div (Len(s) * (Len(s) - 1))))

\* norm.ppf(1 - confidence) in 1/1000, as a magnitude: 0.842 at 80%, 1.645
\* at 95%
NormalQuantile(confidence) == IF confidence = <<4, 5>> THEN 842 ELSE 1645

\* np.abs(np.percentile(np.random.normal(0, 1, 100000), (1 - confidence) * 100)):
\* the quantile of a fresh random sample, which scatters around the exact
\* quantile; three of the values a draw can give
ZScoreDraws(confidence) ==
    {NormalQuantile(confidence) + e : e \in {-10, 0, 10}}

\* abs(mean - z_score * std_dev), in return units
ParametricValue(r, z) ==
    IF Mean(r) = NaN \/ Std(r) = NaN THEN NaN
    ELSE Frac(Abs(Mean(r).n - (z * Std(r).n) \div 1000), 100)

\* parametric_var(returns, confidence_level) when the sample quantile drawn
\* is z
ParametricVarResult(r, confidence, z) ==
    IF Empty(r)
    THEN [op |-> "parametric_var", status |-> "ValueError", confidence |-> confidence]
    ELSE [op |-> "parametric_var", status |-> "ok", confidence |-> confidence,
          value |-> ParametricValue(r, z)]

ParametricVar ==
    /\ \E c \in Confidences : \E z \in ZScoreDraws(c) :
          out' = ParametricVarResult(returns, c, z)
    /\ UNCHANGED <<df, df0, returns, breaches, prices, files, reads>>

\* standard normal deviates a draw can give, in 1/1000
Deviates == {-2000, 0, 1500}

\* np.random.normal(mean, std_dev, simulations) for the deviates e, in 1/100
\* of a return unit
Simulated(r, e) ==
    [i \in DOMAIN e |-> Mean(r).n + (Std(r).n * e[i]) \div 1000]

\* abs(np.percentile(simulated_returns, (1 - confidence) * 100)), in return
\* units
MonteCarloValue(r, confidence, e) ==
    IF Mean(r) = NaN \/ Std(r) = NaN THEN NaN
    ELSE LET q == Percentile(Simulated(r, e), confidence)
         IN  FAbs(Frac(q.n, q.d * 100))

\* monte_carlo_var(returns, confidence_level, simulations) when the draws
\* are the deviates e, Len(e) = simulations
MonteCarloVarResult(r, confidence, e) ==
    IF Empty(r)
    THEN [op |-> "monte_carlo_var", status |-> "ValueError",
          confidence |-> confidence, simulations |-> Len(e)]
    ELSE [op |-> "monte_carlo_var", status |-> "ok",
          confidence |-> confidence, simulations |-> Len(e),
          value |-> MonteCarloValue(r, confidence, e)]

MonteCarloVar ==
    /\ \E c \in Confidences : \E k \in 1..MaxSims : \E e \in [1..k -> Deviates] :
          out' = MonteCarloVarResult(returns, c, e)
    /\ UNCHANGED <<df, df0, returns, breaches, prices, files, reads>>

(***************************************************************************)
(* Expected shortfall: src/risk/backtests.py                               *)
(***************************************************************************)

\* what np.percentile gives for an array without elements: an IndexError in
\* current numpy releases, NaN (with a warning) in older ones
PercentileOfEmpty == {"IndexError", "nan"}

\* a variant that keeps the returns strictly below the threshold
TailOfStrict(r, var_level) ==
    IF var_level = NaN THEN <<>>
    ELSE SelectSeq(r, LAMBDA x : x * var_level.d < var_level.n)

\* returns[returns <= var_level]; no return compares <= NaN
TailOf(r, var_level) ==
    IF var_level = NaN THEN <<>>
    ELSE SelectSeq(r, LAMBDA x : x * var_level.d <= var_level.n)

\* a variant that takes the magnitude of the percentile, as historical_var does
VarLevelAbs(r, alpha) == FAbs(Percentile(DropNa(r), alpha))

\* var_level = np.percentile(returns.dropna(), (1 - alpha) * 100), signed
VarLevel(r, alpha) == Percentile(DropNa(r), alpha)

\* the float expected_shortfall returns for the threshold var_level
ShortfallValue(r, var_level) ==
    IF Len(TailOf(r, var_level)) = 0 THEN Frac(0, 1)
    ELSE Frac(-SumSeq(TailOf(r, var_level)), Len(TailOf(r, var_level)))

\* expected_shortfall(returns, alpha), with the locals var_level and tail as
\* the call leaves them; on_empty is numpy's answer for an empty array
ExpectedShortfallResult(r, alpha, on_empty) ==
    IF Len(DropNa(r)) = 0 /\ on_empty = "IndexError"
    THEN [op |-> "expected_shortfall", status |-> "IndexError", alpha |-> alpha]
    ELSE LET var_level == IF Len(DropNa(r)) = 0 THEN NaN ELSE VarLevel(r, alpha)
         IN  [op |-> "expected_shortfall", status |-> "ok", alpha |-> alpha,
              var_level |-> var_level,
              tail |-> TailOf(r, var_level),
              value |-> ShortfallValue(r, var_level)]

ExpectedShortfall ==
    /\ \E alpha \in Confidences : \E on_empty \in PercentileOfEmpty :
          out' = ExpectedShortfallResult(returns, alpha, on_empty)
    /\ UNCHANGED <<df, df0, returns, breaches, prices, files, reads>>

\* the return series of tests/test_backtests.py, in 1/100
ExampleReturns == {<<-2, 1, -5, -10>>}

\* the caller holds a return series, possibly empty
InitVaR ==
    /\ returns \in SeqsUpTo(RetValues, MaxLen) \cup ExampleReturns
    /\ df = Table(<<>>, <<>>)
    /\ df0 = df
    /\ breaches = <<>>
    /\ prices = <<>>
    /\ files = {}
    /\ reads = <<>>
    /\ out = NoCall

NextVaR ==
    HistoricalVar \/ ParametricVar \/ MonteCarloVar \/ ExpectedShortfall

SpecVaR == InitVaR /\ [][NextVaR]_vars

(***************************************************************************)
(* Claims about the VaR estimators, checked under SpecVaR.                 *)
(***************************************************************************)

\* C4: parametric VaR is deterministic: a call of parametric_var that follows
\* a call on the same return series at the same confidence level returns the
\* same value.
C4_ParametricVarDeterministic ==
    [][(/\ out.op = "parametric_var" /\ out.status = "ok"
        /\ out'.op = "parametric_var" /\ out'.status = "ok"
        /\ out'.confidence = out.confidence
        /\ returns' = returns)
       => out'.value = out.value]_vars

VaROps == {"historical_var", "parametric_var", "monte_carlo_var"}

\* C5: on an empty return series each of the three estimators raises
\* ValueError, at every confidence level and simulation count, and returns
\* no value.
C5_EmptySeriesRaises ==
    (Len(returns) = 0 /\ out.op \in VaROps) =>
        (out.status = "ValueError" /\ "value" \notin DOMAIN out)

\* monte_carlo_var raised on the empty series, asked for several simulations
C5_Witness ==
    /\ Len(returns) = 0
    /\ out.op = "monte_carlo_var"
    /\ out.simulations > 1
    /\ out.status = "ValueError"

(***************************************************************************)
(* Backtests: src/risk/backtests.py                                        *)
(***************************************************************************)

\* 1 - p of a float
OneMinus(p) == IF p = NaN THEN NaN ELSE Frac(p.d - p.n, p.d)

\* a variant that counts every observation as a breach
BreachCountAll(b) == Len(b)

\* int(breaches.sum())
BreachCount(b) == CountTrue(b)

\* a variant of the boundary test that catches no breaches only
DegenerateZeroOnly(p_hat) == p_hat = Frac(0, 1)

\* p_hat in (0, 1): the observed rate is exactly 0 or exactly 1
Degenerate(p_hat) == p_hat \in {Frac(0, 1), Frac(1, 1)}

\* (1 - q) ** (n - x) * q ** x, kept as its factors
Likelihood(q, n, x) ==
    [base0 |-> OneMinus(q), exp0 |-> n - x, base1 |-> q, exp1 |-> x]

\* LR = -2 * np.log(num / den), kept as the two likelihoods
KupiecLR(p, p_hat, n, x) ==
    [stat |-> "-2ln(num/den)",
     num |-> Likelihood(p, n, x), den |-> Likelihood(p_hat, n, x)]

\* 1 - chi2.cdf(LR, df=1), kept as the statistic it is taken of
Chi2Sf(LR) == IF LR = NaN THEN NaN ELSE [stat |-> "1-chi2.cdf(df=1)", of |-> LR]

\* kupiec_pof_test(breaches, alpha); x / n raises ZeroDivisionError for an
\* empty series
KupiecPofResult(b, alpha) ==
    LET n == Len(b)
        x == BreachCount(b)
        p == OneMinus(Frac(alpha[1], alpha[2]))
    IN  IF n = 0
        THEN [op |-> "kupiec_pof_test", status |-> "ZeroDivisionError", alpha |-> alpha]
        ELSE LET p_hat == Frac(x, n)
                 LR == IF Degenerate(p_hat) THEN NaN ELSE KupiecLR(p, p_hat, n, x)
             IN  [op |-> "kupiec_pof_test", status |-> "ok", alpha |-> alpha,
                  value |-> [n |-> n, x |-> x, p_hat |-> p_hat,
                             LR |-> LR, p_value |-> Chi2Sf(LR)]]

KupiecPofTest ==
    /\ \E alpha \in Confidences : out' = KupiecPofResult(breaches, alpha)
    /\ UNCHANGED <<df, df0, returns, breaches, prices, files, reads>>

\* breaches.astype(int)
AsInt(flag) == IF flag THEN 1 ELSE 0

\* np.sum((b[:-1] == i) & (b[1:] == j)): the slices pair position t with
\* position t + 1 and are both empty for a series of fewer than two flags
TransitionCount(b, i, j) ==
    Cardinality({t \in 1..(Len(b) - 1) : AsInt(b[t]) = i /\ AsInt(b[t + 1]) = j})

\* a / b of two numpy integers: NaN (with a warning) for 0 / 0
NpDivide(a, b) == IF b = 0 THEN NaN ELSE Frac(a, b)

\* a variant that takes 0 * log(0) as 0
LogTermZeroConvention(n, q) ==
    IF q = NaN THEN "nan"
    ELSE IF q.n = 0 THEN (IF n = 0 THEN "fin" ELSE "-inf")
    ELSE "fin"

\* n * np.log(q) as finite, minus infinity or NaN: log(0) is -inf and
\* 0 * -inf is NaN
LogTerm(n, q) ==
    IF q = NaN THEN "nan"
    ELSE IF q.n = 0 THEN (IF n = 0 THEN "nan" ELSE "-inf")
    ELSE "fin"

\* a + b of two such terms
AddTerms(a, b) ==
    IF a = "nan" \/ b = "nan" THEN "nan"
    ELSE IF a = "-inf" \/ b = "-inf" THEN "-inf"
    ELSE "fin"

\* ll(n0, n1, p) = n0 * np.log(1 - p) + n1 * np.log(p)
LogLik(n0, n1, p) == AddTerms(LogTerm(n0, OneMinus(p)), LogTerm(n1, p))

\* -2 * (ll_ind - ll_markov)
Neg2Diff(ll_ind, ll_markov) ==
    IF ll_ind = "nan" \/ ll_markov = "nan" THEN "nan"
    ELSE IF ll_ind = "-inf" /\ ll_markov = "-inf" THEN "nan"
    ELSE IF ll_ind = "-inf" THEN "+inf"
    ELSE IF ll_markov = "-inf" THEN "-inf"
    ELSE "fin"

\* christoffersen_independence_test(breaches); a finite LR is kept as the
\* counts it is computed from
ChristoffersenResult(b) ==
    LET N00 == TransitionCount(b, 0, 0)
        N01 == TransitionCount(b, 0, 1)
        N10 == TransitionCount(b, 1, 0)
        N11 == TransitionCount(b, 1, 1)
        pi0 == IF N00 + N01 > 0 THEN Frac(N01, N00 + N01) ELSE Frac(0, 1)
        pi1 == IF N10 + N11 > 0 THEN Frac(N11, N10 + N11) ELSE Frac(0, 1)
        pi == NpDivide(N01 + N11, N00 + N01 + N10 + N11)
        ll_ind == LogLik(N00 + N10, N01 + N11, pi)
        ll_markov == AddTerms(LogLik(N00, N01, pi0), LogLik(N10, N11, pi1))
        kind == Neg2Diff(ll_ind, ll_markov)
        LR == IF kind = "nan" THEN NaN
              ELSE [stat |-> "-2(ll_ind-ll_markov)", kind |-> kind,
                    counts |-> <<N00, N01, N10, N11>>]
    IN  [op |-> "christoffersen_independence_test", status |-> "ok",
         value |-> [N00 |-> N00, N01 |-> N01, N10 |-> N10, N11 |-> N11,
                    pi0 |-> pi0, pi1 |-> pi1, pi |-> pi,
                    LR |-> LR, p_value |-> Chi2Sf(LR)]]

ChristoffersenIndependenceTest ==
    /\ out' = ChristoffersenResult(breaches)
    /\ UNCHANGED <<df, df0, returns, breaches, prices, files, reads>>

\* the caller holds a breach flag series, possibly empty
InitBacktest ==
    /\ breaches \in SeqsUpTo(BOOLEAN, MaxFlags)
    /\ df = Table(<<>>, <<>>)
    /\ df0 = df
    /\ returns = <<>>
    /\ prices = <<>>
    /\ files = {}
    /\ reads = <<>>
    /\ out = NoCall

NextBacktest == KupiecPofTest \/ ChristoffersenIndependenceTest

SpecBacktest == InitBacktest /\ [][NextBacktest]_vars

(***************************************************************************)
(* Claims about the backtests, checked under SpecBacktest, and about the   *)
(* breach summary on an empty column, checked under SpecBreach.            *)
(***************************************************************************)

\* the number of true flags of the caller's breach series
TrueFlags == Cardinality({i \in DOMAIN breaches : breaches[i]})

\* C6: for a non-empty breach series kupiec_pof_test does not raise; when no
\* flag or every flag is true, LR and p_value are both NaN while n, x and
\* p_hat are the valid counts; otherwise LR is the likelihood ratio of the
\* nominal rate 1 - alpha against the observed rate x/n, and p_value is taken
\* of it.
C6_KupiecDegeneratePolicy ==
    (out.op = "kupiec_pof_test" /\ Len(breaches) > 0) =>
        /\ out.status = "ok"
        /\ IF TrueFlags = 0 \/ TrueFlags = Len(breaches)
           THEN /\ out.value.LR = NaN
                /\ out.value.p_value = NaN
                /\ out.value.n = Len(breaches)
                /\ out.value.x = TrueFlags
                /\ out.value.p_hat = Frac(TrueFlags, Len(breaches))
           ELSE /\ out.value.LR # NaN
                /\ out.value.p_value # NaN
                /\ out.value.LR.num.base1 =
                       Frac(out.alpha[2] - out.alpha[1], out.alpha[2])
                /\ out.value.LR.den.base1 = Frac(TrueFlags, Len(breaches))
                /\ out.value.p_value.of = out.value.LR

\* every flag of a series of several flags is true, and the result is the
\* record with NaN statistics
C6_Witness ==
    /\ out.op = "kupiec_pof_test"
    /\ Len(breaches) > 1
    /\ TrueFlags = Len(breaches)
    /\ out.status = "ok"
    /\ out.value.LR = NaN
    /\ out.value.x = Len(breaches)

\* C7: for a non-empty breach series kupiec_pof_test returns n = the length,
\* x = the number of true flags and p_hat = x/n, with 0 <= x <= n, and x is
\* the count summarize_var_breaches reports for the same flag column.
C7_KupiecCounts ==
    (out.op = "kupiec_pof_test" /\ Len(breaches) > 0) =>
        /\ out.status = "ok"
        /\ out.value.n = Len(breaches)
        /\ out.value.x = TrueFlags
        /\ out.value.p_hat = Frac(TrueFlags, Len(breaches))
        /\ 0 <= out.value.x /\ out.value.x <= out.value.n
        /\ out.value.x = SummaryOf(breaches).count

\* one breach in five observations: x = 1, p_hat = 1/5
C7_Witness ==
    /\ out.op = "kupiec_pof_test"
    /\ breaches = <<FALSE, FALSE, TRUE, FALSE, FALSE>>
    /\ out.value.n = 5
    /\ out.value.x = 1
    /\ out.value.p_hat = Frac(1, 5)

\* the number of positions t with b[t] = i and b[t+1] = j
Pairs(i, j) ==
    Cardinality({t \in 1..(Len(breaches) - 1) :
                   breaches[t] = i /\ breaches[t + 1] = j})

\* C8: for every breach series the four counts the Christoffersen test
\* returns are the numbers of consecutive pairs, non-negative, and add up to
\* the length of the series minus 1.
C8_TransitionCounts ==
    (out.op = "christoffersen_independence_test" /\ out.status = "ok") =>
        /\ out.value.N00 = Pairs(FALSE, FALSE)
        /\ out.value.N01 = Pairs(FALSE, TRUE)
        /\ out.value.N10 = Pairs(TRUE, FALSE)
        /\ out.value.N11 = Pairs(TRUE, TRUE)
        /\ \A c \in {out.value.N00, out.value.N01, out.value.N10, out.value.N11} :
              c >= 0
        /\ out.value.N00 + out.value.N01 + out.value.N10 + out.value.N11
              = Len(breaches) - 1

\* C9: a call of the Christoffersen test on a series of fewer than two flags
\* is rejected and returns no result record.
C9_ShortSeriesRejected ==
    (out.op = "christoffersen_independence_test" /\ Len(breaches) < 2) =>
        (out.status # "ok" /\ "value" \notin DOMAIN out)

\* C10: summarize_var_breaches on an empty breach column fails with the
\* empty-input error and returns no summary record.
C10_EmptySummaryRaises ==
    (/\ out.op = "summarize_var_breaches"
     /\ "breach" \in DOMAIN df
     /\ Len(df["breach"]) = 0)
    => (out.status = "ValueError" /\ "value" \notin DOMAIN out)

(***************************************************************************)
(* Claims about the breach summary, checked under SpecBreach.              *)
(***************************************************************************)

\* the number of true flags of the table's breach column
TrueInColumn == Cardinality({i \in DOMAIN df["breach"] : df["breach"][i]})

\* C11: for a non-empty flag column summarize_var_breaches returns count =
\* the number of true flags and the rate count/length rounded to 3 decimals
\* (a multiple of 1/1000 within 1/2000 of count/length); all flags false give
\* count 0 and rate 0, all flags true give count n and rate 1; and the flag
\* column is left as breach detection wrote it.
C11_SummaryCountAndRate ==
    (/\ out.op = "summarize_var_breaches"
     /\ "breach" \in DOMAIN df
     /\ Len(df["breach"]) > 0)
    => LET n == Len(df["breach"])
           rate == out.value.percentage
       IN  /\ out.status = "ok"
           /\ out.value.count = TrueInColumn
           /\ rate # NaN
           /\ 1000 % rate.d = 0
           /\ 2000 * Abs(rate.n * n - TrueInColumn * rate.d) <= rate.d * n
           /\ TrueInColumn = 0 => (out.value.count = 0 /\ rate = Frac(0, 1))
           /\ TrueInColumn = n => (out.value.count = n /\ rate = Frac(1, 1))
           /\ \A i \in DOMAIN df["breach"] : df["breach"][i] = ExpectedFlag(i)

\* the example of tests/test_utils.py: one breach in three rows, rate 0.333;
\* and two breaches in three rows, rate 0.667
C11_Witness ==
    /\ out.op = "summarize_var_breaches"
    /\ out.status = "ok"
    /\ df["ret"] = <<5, -10, -2>> /\ df["var"] = <<-1, -5, -5>>
    /\ out.value = [count |-> 1, percentage |-> Frac(333, 1000)]

(***************************************************************************)
(* Return transforms: src/risk/utils.py                                    *)
(*                                                                         *)
(* A price series is the sequence of its prices; its index (the dates) is  *)
(* the positions 1..n.  A derived series is a sequence of entries          *)
(* [idx, val] that keep the index label of the price they belong to.       *)
(***************************************************************************)

\* Series.shift(k): the value at position t is the one k positions before
\* it, NaN where there is none
Shift(p, k) ==
    [t \in 1..Len(p) |->
        [idx |-> t,
         val |-> IF t - k >= 1 /\ t - k <= Len(p) THEN Frac(p[t - k], 1) ELSE NaN]]

\* a / b of two floats, b # 0
Quotient(a, b) == IF a = NaN \/ b = NaN THEN NaN ELSE Frac(a.n * b.d, a.d * b.n)

\* a - 1 of a float
MinusOne(a) == IF a = NaN THEN NaN ELSE Frac(a.n - a.d, a.d)

\* np.log(x), kept as its argument
Ln(x) == IF x = NaN THEN NaN ELSE [ln |-> x]

\* a variant of dropna that keeps every entry
DropNaEntriesKeepAll(s) == s

\* Series.dropna(): the entries whose value is not NaN, on their own labels
DropNaEntries(s) == SelectSeq(s, LAMBDA e : e.val # NaN)

\* a variant that divides the change by the current price
PctChangeOverCurrent(p) ==
    [t \in 1..Len(p) |->
        [idx |-> t,
         val |-> IF Shift(p, 1)[t].val = NaN THEN NaN
                 ELSE Frac(p[t] - Shift(p, 1)[t].val.n, p[t])]]

\* Series.pct_change(): p[t] / p[t-1] - 1, NaN at the first position
PctChange(p) ==
    [t \in 1..Len(p) |->
        [idx |-> t,
         val |-> MinusOne(Quotient(Frac(p[t], 1), Shift(p, 1)[t].val))]]

\* calculate_daily_returns(price_series)
DailyReturnsResult(p) ==
    IF Empty(p)
    THEN [op |-> "calculate_daily_returns", status |-> "ValueError"]
    ELSE [op |-> "calculate_daily_returns", status |-> "ok",
          value |-> DropNaEntries(PctChange(p))]

CalculateDailyReturns ==
    /\ out' = DailyReturnsResult(prices)
    /\ UNCHANGED <<df, df0, returns, breaches, prices, files, reads>>

\* calculate_log_returns(prices): np.log(prices / prices.shift(1)).dropna()
LogReturnsResult(p) ==
    [op |-> "calculate_log_returns", status |-> "ok",
     value |-> DropNaEntries(
                 [t \in 1..Len(p) |->
                     [idx |-> t,
                      val |-> Ln(Quotient(Frac(p[t], 1), Shift(p, 1)[t].val))]])]

CalculateLogReturns ==
    /\ out' = LogReturnsResult(prices)
    /\ UNCHANGED <<df, df0, returns, breaches, prices, files, reads>>

\* calculate_forward_log_returns(prices, days_forward):
\* np.log(prices.shift(-days_forward) / prices), then dropna()
ForwardLogReturnsResult(p, days_forward) ==
    [op |-> "calculate_forward_log_returns", status |-> "ok",
     days_forward |-> days_forward,
     value |-> DropNaEntries(
                 [t \in 1..Len(p) |->
                     [idx |-> t,
                      val |-> Ln(Quotient(Shift(p, -days_forward)[t].val,
                                          Frac(p[t], 1)))]])]

CalculateForwardLogReturns ==
    /\ \E h \in 1..MaxHorizon : out' = ForwardLogReturnsResult(prices, h)
    /\ UNCHANGED <<df, df0, returns, breaches, prices, files, reads>>

\* the caller holds a price series of positive prices, possibly empty
InitReturns ==
    /\ prices \in SeqsUpTo(PriceValues, MaxLen)
    /\ df = Table(<<>>, <<>>)
    /\ df0 = df
    /\ returns = <<>>
    /\ breaches = <<>>
    /\ files = {}
    /\ reads = <<>>
    /\ out = NoCall

NextReturns ==
    CalculateDailyReturns \/ CalculateLogReturns \/ CalculateForwardLogReturns

SpecReturns == InitReturns /\ [][NextReturns]_vars

(***************************************************************************)
(* Claims about the return transforms, checked under SpecReturns.          *)
(***************************************************************************)

Max(a, b) == IF a >= b THEN a ELSE b

\* C12: for a price series of length n and a horizon h >= 1,
\* calculate_forward_log_returns returns exactly max(n - h, 0) values: the
\* k-th is ln(p[k+h] / p[k]) on the index label of p[k], k = 1..n-h; the
\* last h positions are dropped.
C12_ForwardLogReturns ==
    out.op = "calculate_forward_log_returns" =>
        LET h == out.days_forward
        IN  /\ out.status = "ok"
            /\ h >= 1
            /\ Len(out.value) = Max(Len(prices) - h, 0)
            /\ \A k \in 1..Len(out.value) :
                  /\ out.value[k].idx = k
                  /\ out.value[k].idx <= Len(prices) - h
                  /\ out.value[k].val = [ln |-> Frac(prices[k + h], prices[k])]

\* the example of tests/test_utils.py: prices [100, 110, 121] at horizon 2
\* give the one value ln(121/100)
C12_Witness ==
    /\ out.op = "calculate_forward_log_returns"
    /\ prices = <<100, 110, 121>>
    /\ out.days_forward = 2
    /\ out.value = <<[idx |-> 1, val |-> [ln |-> Frac(121, 100)]]>>

\* C13: calculate_daily_returns raises ValueError on an empty price series;
\* on a series of n >= 1 prices it returns exactly the n - 1 values
\* (p[t] - p[t-1]) / p[t-1], t = 2..n, the first position being dropped; and
\* the call leaves the price series as it was.
C13_DailyReturns ==
    [][out'.op = "calculate_daily_returns" =>
        /\ prices' = prices
        /\ IF Len(prices) = 0
           THEN out'.status = "ValueError" /\ "value" \notin DOMAIN out'
           ELSE /\ out'.status = "ok"
                /\ Len(out'.value) = Len(prices) - 1
                /\ \A k \in 1..(Len(prices) - 1) :
                      /\ out'.value[k].idx = k + 1
                      /\ out'.value[k].val =
                            Frac(prices[k + 1] - prices[k], prices[k])]_vars

\* the example of tests/test_utils.py: prices [100, 110, 121] give the
\* returns [0.1, 0.1]
C13_Witness ==
    /\ out.op = "calculate_daily_returns"
    /\ prices = <<100, 110, 121>>
    /\ out.value = <<[idx |-> 2, val |-> Frac(1, 10)], [idx |-> 3, val |-> Frac(1, 10)]>>

(***************************************************************************)
(* Claims about expected shortfall, checked under SpecVaR.                 *)
(***************************************************************************)

\* the positions of the returns at or below the threshold t
AtOrBelow(t) ==
    IF t = NaN THEN {} ELSE {i \in DOMAIN returns : returns[i] * t.d <= t.n}

RECURSIVE SumAt(_)
SumAt(S) ==
    IF S = {} THEN 0
    ELSE LET i == CHOOSE j \in S : TRUE IN returns[i] + SumAt(S \ {i})

\* C14: expected_shortfall takes the signed (1 - alpha) * 100-th percentile
\* of the returns as threshold and returns the negated mean of exactly the
\* returns at or below it, and exactly 0 when no return is at or below it.
C14_ExpectedShortfall ==
    (out.op = "expected_shortfall" /\ out.status = "ok") =>
        /\ Len(returns) > 0 => out.var_level = Percentile(returns, out.alpha)
        /\ Len(out.tail) = Cardinality(AtOrBelow(out.var_level))
        /\ IF AtOrBelow(out.var_level) = {}
           THEN out.value = Frac(0, 1)
           ELSE out.value = Frac(-SumAt(AtOrBelow(out.var_level)),
                                 Cardinality(AtOrBelow(out.var_level)))

\* the example of tests/test_backtests.py: returns [-0.02, 0.01, -0.05,
\* -0.10] at alpha 0.95 average the single worst observation, 0.10
C14_Witness ==
    /\ out.op = "expected_shortfall"
    /\ returns = <<-2, 1, -5, -10>>
    /\ out.alpha = <<19, 20>>
    /\ out.tail = <<-10>>
    /\ out.value = Frac(10, 1)

\* C17: for a non-empty return series the set of returns at or below the
\* threshold is never empty (the smallest return is in it), so the call
\* does not end in the 'return 0.0' branch, and the result is at least the
\* negated threshold.
C17_TailNeverEmpty ==
    (out.op = "expected_shortfall" /\ Len(returns) > 0) =>
        /\ out.status = "ok"
        /\ Len(out.tail) > 0
        /\ \E i \in DOMAIN returns :
              /\ \A j \in DOMAIN returns : returns[i] <= returns[j]
              /\ \E k \in DOMAIN out.tail : out.tail[k] = returns[i]
        /\ out.value.n * out.var_level.d >= -out.var_level.n * out.value.d

\* a series of several different returns whose tail is a proper part of it
\* and whose mean tail loss exceeds the negated threshold
C17_Witness ==
    /\ out.op = "expected_shortfall"
    /\ Len(returns) > 1
    /\ Len(out.tail) > 0 /\ Len(out.tail) < Len(returns)
    /\ out.value.n * out.var_level.d > -out.var_level.n * out.value.d

(***************************************************************************)
(* Claims about the independence test's statistic, under SpecBacktest.     *)
(***************************************************************************)

AllTransitionsSeen == \A i \in BOOLEAN : \A j \in BOOLEAN : Pairs(i, j) > 0

\* C16: for a breach series of length >= 2 the independence test raises no
\* error, and its LR and p_value are finite numbers exactly when each of the
\* four transitions 0->0, 0->1, 1->0, 1->1 occurs in the series; as soon as
\* one of them does not occur, a 0 * log(0) makes LR and p_value NaN.
C16_FiniteIffAllTransitions ==
    (out.op = "christoffersen_independence_test" /\ Len(breaches) >= 2) =>
        /\ out.status = "ok"
        /\ IF AllTransitionsSeen
           THEN /\ out.value.LR # NaN
                /\ out.value.LR.kind = "fin"
                /\ out.value.p_value # NaN
           ELSE /\ out.value.LR = NaN
                /\ out.value.p_value = NaN

\* a series with breaches and non-breaches in which no breach follows a
\* breach: LR and p_value are NaN
C16_Witness ==
    /\ out.op = "christoffersen_independence_test"
    /\ breaches = <<FALSE, FALSE, TRUE, FALSE, TRUE, FALSE>>
    /\ out.value.N11 = 0 /\ out.value.N00 > 0
    /\ out.value.N01 > 0 /\ out.value.N10 > 0
    /\ out.value.LR = NaN
    /\ out.value.p_value = NaN

(***************************************************************************)
(* The price loader: load_latest_price_data of src/risk/utils.py           *)
(*                                                                         *)
(* A file of the data directory is a record: its name is                   *)
(* <prefix>_<stem><ext>, where the prefix is either three numbers written  *)
(* y-m-d or some other text, and the stem is a sequence of words; of its   *)
(* content the model keeps the number of columns and the position of the   *)
(* first column that parses as dates (0: none).  The cleaning of the cell  *)
(* values is not modelled.  Keywords occur in stems only.                  *)
(***************************************************************************)

Ymd(y, m, d) == [kind |-> "ymd", y |-> y, m |-> m, d |-> d]
Text(t) == [kind |-> "text", text |-> t]

File(prefix, stem, ext, columns, date_col) ==
    [prefix |-> prefix, stem |-> stem, ext |-> ext,
     columns |-> columns, date_col |-> date_col]

\* the file name, without the content
NameOf(f) == [prefix |-> f.prefix, stem |-> f.stem, ext |-> f.ext]

\* the files a data directory may hold; no two have the same name
FileUniverse ==
    { File(Ymd(2022, 1, 1), <<"nasdaq">>, ".csv", 2, 1),
      File(Ymd(2023, 1, 1), <<"nasdaq">>, ".csv", 2, 1),
      File(Ymd(2023, 1, 1), <<"nasdaq", "100">>, ".csv", 3, 2),
      File(Ymd(2024, 1, 1), <<"other">>, ".csv", 2, 1),
      File(Ymd(2023, 13, 1), <<"nasdaq">>, ".csv", 2, 1),
      File(Text("latest"), <<"nasdaq">>, ".csv", 2, 1),
      File(Ymd(2025, 1, 1), <<"nasdaq">>, ".txt", 2, 1),
      File(Ymd(2024, 2, 29), <<"nasdaq">>, ".csv", 1, 0),
      File(Ymd(2024, 3, 1), <<"nasdaq">>, ".csv", 2, 0) }

Keywords == {<<"nasdaq">>, <<"missing">>}

\* os.listdir(directory): the files in an arbitrary order
Listings(S) ==
    {l \in [1..Cardinality(S) -> S] :
        \A i \in DOMAIN l : \A j \in DOMAIN l : l[i] = l[j] => i = j}

\* keyword in f
Contains(keyword, stem) ==
    \E i \in 1..(Len(stem) - Len(keyword) + 1) :
        SubSeq(stem, i, i + Len(keyword) - 1) = keyword

\* the files list: keyword in f and f.endswith('.csv'), in listing order
Matching(listing, keyword) ==
    SelectSeq(listing, LAMBDA f : Contains(keyword, f.stem) /\ f.ext = ".csv")

IsLeap(y) == (y % 4 = 0 /\ y % 100 # 0) \/ y % 400 = 0

DaysInMonth(y, m) ==
    IF m = 2 THEN (IF IsLeap(y) THEN 29 ELSE 28)
    ELSE IF m \in {4, 6, 9, 11} THEN 30 ELSE 31

\* datetime.strptime(fname.split('_')[0], '%Y-%m-%d'): the date, or
\* ValueError (ok = FALSE) when the prefix is not a calendar date
Strptime(prefix) ==
    IF /\ prefix.kind = "ymd"
       /\ prefix.y \in 1..9999
       /\ prefix.m \in 1..12
       /\ prefix.d \in 1..DaysInMonth(prefix.y, prefix.m)
    THEN [ok |-> TRUE, date |-> <<prefix.y, prefix.m, prefix.d>>]
    ELSE [ok |-> FALSE]

\* a > b of two dates
Later(a, b) ==
    \/ a[1] > b[1]
    \/ a[1] = b[1] /\ a[2] > b[2]
    \/ a[1] = b[1] /\ a[2] = b[2] /\ a[3] > b[3]

\* the dated list: (fname, dt) for the names whose prefix parses, the
\* others being skipped
Dated(matching) ==
    LET parsed == [i \in DOMAIN matching |->
                     [fname |-> matching[i], dt |-> Strptime(matching[i].prefix)]]
    IN  SelectSeq(parsed, LAMBDA e : e.dt.ok)

\* max(dated, key=lambda x: x[1]): the first entry that no entry exceeds
RECURSIVE MaxFrom(_, _, _)
MaxFrom(dated, i, best) ==
    IF i > Len(dated) THEN best
    ELSE MaxFrom(dated, i + 1,
                 IF Later(dated[i].dt.date, best.dt.date) THEN dated[i] ELSE best)

MaxByDate(dated) == MaxFrom(dated, 2, dated[1])

\* load_latest_price_data(directory, keyword) for the listing os.listdir
\* returned
LoadLatestPriceDataResult(listing, keyword) ==
    LET matching == Matching(listing, keyword)
        dated == Dated(matching)
        latest_file == MaxByDate(dated).fname
        call == [op |-> "load_latest_price_data", keyword |-> keyword]
    IN  IF Len(matching) = 0 \/ Len(dated) = 0
        THEN call @@ [status |-> "FileNotFoundError"]
        ELSE IF latest_file.columns < 2 \/ latest_file.date_col = 0
        THEN call @@ [status |-> "ValueError", latest_file |-> NameOf(latest_file)]
        ELSE call @@ [status |-> "ok", latest_file |-> NameOf(latest_file),
                      value |-> [source |-> NameOf(latest_file),
                                 index |-> latest_file.date_col,
                                 columns |-> latest_file.columns - 1]]

\* the paths the call hands to pd.read_csv
ReadsOf(result) ==
    IF result.status = "FileNotFoundError" THEN <<>> ELSE <<result.latest_file>>

LoadLatestPriceData ==
    /\ \E keyword \in Keywords : \E listing \in Listings(files) :
          /\ out' = LoadLatestPriceDataResult(listing, keyword)
          /\ reads' = ReadsOf(LoadLatestPriceDataResult(listing, keyword))
    /\ UNCHANGED <<df, df0, returns, breaches, prices, files>>

\* the data directory holds some files
InitLoader ==
    /\ files \in {S \in SUBSET FileUniverse : Cardinality(S) <= MaxFiles}
    /\ df = Table(<<>>, <<>>)
    /\ df0 = df
    /\ returns = <<>>
    /\ breaches = <<>>
    /\ prices = <<>>
    /\ reads = <<>>
    /\ out = NoCall

NextLoader == LoadLatestPriceData

SpecLoader == InitLoader /\ [][NextLoader]_vars

(***************************************************************************)
(* Claims about the loader, checked under SpecLoader.                      *)
(***************************************************************************)

\* the files that qualify for the keyword: keyword in the name, '.csv', and
\* a calendar date before the first underscore
Eligible(keyword) ==
    {f \in files : /\ Contains(keyword, f.stem)
                   /\ f.ext = ".csv"
                   /\ Strptime(f.prefix).ok}

\* The part of the selection that does not depend on the listing: without a
\* qualifying file the call raises FileNotFoundError and reads nothing;
\* otherwise it reads exactly one file, a qualifying one that no qualifying
\* file is dated after.
LoaderSelectsAGreatestDate ==
    out.op = "load_latest_price_data" =>
        IF Eligible(out.keyword) = {}
        THEN out.status = "FileNotFoundError" /\ reads = <<>>
        ELSE /\ out.status \in {"ok", "ValueError"}
             /\ reads = <<out.latest_file>>
             /\ \E f \in Eligible(out.keyword) :
                   /\ NameOf(f) = out.latest_file
                   /\ \A g \in Eligible(out.keyword) :
                         ~Later(Strptime(g.prefix).date, Strptime(f.prefix).date)

\* C15: load_latest_price_data selects, among the files that contain the
\* keyword, end in '.csv' and have a calendar date before the first
\* underscore, the one with the greatest date, and two calls on the same
\* directory with the same keyword select the same file whatever the order
\* of the directory listing; files whose prefix is no date are skipped;
\* without a qualifying file it raises FileNotFoundError and reads no file.
C15_LatestFileWhateverTheListing ==
    [][out'.op = "load_latest_price_data" =>
        IF Eligible(out'.keyword) = {}
        THEN out'.status = "FileNotFoundError" /\ reads' = <<>>
        ELSE /\ out'.status # "FileNotFoundError"
             /\ \E f \in Eligible(out'.keyword) :
                   /\ NameOf(f) = out'.latest_file
                   /\ \A g \in Eligible(out'.keyword) :
                         ~Later(Strptime(g.prefix).date, Strptime(f.prefix).date)
             /\ (out.op = "load_latest_price_data" /\ out.keyword = out'.keyword)
                   => out'.latest_file = out.latest_file]_vars

====
